---- MODULE Spec2Model ----
(***************************************************************************)
(* A model of deserializer_kiss.py: a serial framer that reads a 4-byte    *)
(* sync marker window, and on a match reads and decodes a 12-byte payload  *)
(* of three little-endian unsigned 32-bit fields and prints them.          *)
(*                                                                         *)
(* An unsigned 32-bit integer is held as <<hi, lo>>, its two 16-bit        *)
(* halves (value = hi * 65536 + lo), because the values of the program     *)
(* (0xdeadbeef, 0xffffffff) exceed the integers TLC computes with.         *)
(***************************************************************************)
EXTENDS Integers, Sequences, FiniteSets, TLC

VARIABLES
    stream,            \* every byte the serial link will deliver, in order
    pos,               \* number of bytes main has taken from the link
    packet,            \* the Packet object of main (with its Marker)
    raw_bytes_object,  \* main's local variable
    pc,                \* the line main is at, or the exception that ended it
    console            \* the lines printed so far

vars == <<stream, pos, packet, raw_bytes_object, pc, console>>

-----------------------------------------------------------------------------
(* Bounds of the model *)

MaxSegs == 4    \* segments (packets, junk windows, junk bytes) in a stream
MaxJunk == 2    \* non-matching windows ahead of the packet (SpecFramed)
MaxFlipJunk == 1  \* non-matching windows ahead of the packet (SpecFlip)
MaxWindow == 13   \* longest window handed to a direct call (SpecCalls)
MaxLogs == 1      \* lines printed by direct calls of log (SpecCalls)

-----------------------------------------------------------------------------
(* struct: format strings, calcsize, unpack, pack *)

\* '<I' and '<III': byte order character and the format characters after it
FormatI == [order |-> "<", codes |-> <<"I">>]
FormatIII == [order |-> "<", codes |-> <<"I", "I", "I">>]

\* standard size of one format character
CodeSize(c) == CASE c = "I" -> 4

RECURSIVE SumSizes(_)
SumSizes(codes) ==
    IF codes = <<>> THEN 0 ELSE CodeSize(Head(codes)) + SumSizes(Tail(codes))

calcsize(format) == SumSizes(format.codes)

\* UnpackI reading every field most significant byte first
UnpackBigEndianI(order, b) == <<b[1] * 256 + b[2], b[3] * 256 + b[4]>>

\* one 'I' field of 4 bytes b, in byte order '<' (least significant first)
\* or '>' (most significant first)
UnpackI(order, b) ==
    IF order = "<"
    THEN <<b[4] * 256 + b[3], b[2] * 256 + b[1]>>
    ELSE <<b[1] * 256 + b[2], b[3] * 256 + b[4]>>

\* struct.unpack: struct.error unless the buffer has exactly calcsize bytes
unpack(format, bytes_object) ==
    IF Len(bytes_object) # calcsize(format)
    THEN [ok |-> FALSE, vals |-> <<>>]
    ELSE [ok |-> TRUE,
          vals |-> [i \in 1..Len(format.codes) |->
                      UnpackI(format.order,
                              SubSeq(bytes_object, 4 * (i - 1) + 1, 4 * i))]]

\* struct.pack('<I', v), the sender's side
PackI(v) == <<v[2] % 256, v[2] \div 256, v[1] % 256, v[1] \div 256>>

\* the sender's Packet.serialize: struct.pack('<IIII', m, x, y, z)
serialize(m, x, y, z) == PackI(m) \o PackI(x) \o PackI(y) \o PackI(z)

-----------------------------------------------------------------------------
(* class Marker *)

MarkerInit(marker, format) ==
    [marker |-> marker, format |-> format, length |-> calcsize(format)]

\* sync with its comparison inverted
syncInverted(self, bytes_object) ==
    LET r == unpack(self.format, bytes_object)
    IN  IF ~r.ok
        THEN [ok |-> FALSE, ret |-> FALSE]
        ELSE [ok |-> TRUE, ret |-> (self.marker # r.vals[1])]

\* sync answering "no match" where struct.unpack raises
syncLenient(self, bytes_object) ==
    LET r == unpack(self.format, bytes_object)
    IN  IF ~r.ok
        THEN [ok |-> TRUE, ret |-> FALSE]
        ELSE [ok |-> TRUE, ret |-> (self.marker = r.vals[1])]

\* Marker.sync: [ok |-> FALSE] is struct.error, otherwise ret is the result
sync(self, bytes_object) ==
    LET r == unpack(self.format, bytes_object)
    IN  IF ~r.ok
        THEN [ok |-> FALSE, ret |-> FALSE]
        ELSE [ok |-> TRUE, ret |-> (self.marker = r.vals[1])]

-----------------------------------------------------------------------------
(* class Packet *)

PacketInit(marker, marker_format) ==
    [marker |-> MarkerInit(marker, marker_format),
     format |-> FormatIII,
     length |-> calcsize(FormatIII),
     x |-> <<0, 0>>, y |-> <<0, 0>>, z |-> <<0, 0>>]

\* deserialize with y and z taken from each other's place
deserializeSwapped(self, bytes_object) ==
    LET pkt == unpack(self.format, bytes_object)
    IN  IF ~pkt.ok
        THEN [ok |-> FALSE, self |-> self]
        ELSE [ok |-> TRUE,
              self |-> [self EXCEPT !.x = pkt.vals[1],
                                    !.y = pkt.vals[3],
                                    !.z = pkt.vals[2]]]

\* deserialize decoding the first bytes of a window that is too long
deserializeTruncating(self, bytes_object) ==
    LET pkt == unpack(self.format,
                      IF Len(bytes_object) > calcsize(self.format)
                      THEN SubSeq(bytes_object, 1, calcsize(self.format))
                      ELSE bytes_object)
    IN  IF ~pkt.ok
        THEN [ok |-> FALSE, self |-> self]
        ELSE [ok |-> TRUE,
              self |-> [self EXCEPT !.x = pkt.vals[1],
                                    !.y = pkt.vals[2],
                                    !.z = pkt.vals[3]]]

\* deserialize unpacking as the sender packs: the first field into the marker
deserializeOverMarker(self, bytes_object) ==
    LET pkt == unpack(self.format, bytes_object)
    IN  IF ~pkt.ok
        THEN [ok |-> FALSE, self |-> self]
        ELSE [ok |-> TRUE,
              self |-> [self EXCEPT !.marker.marker = pkt.vals[1],
                                    !.x = pkt.vals[2],
                                    !.y = pkt.vals[3]]]

\* Packet.deserialize: [ok |-> FALSE] is struct.error, self is the object after
deserialize(self, bytes_object) ==
    LET pkt == unpack(self.format, bytes_object)
    IN  IF ~pkt.ok
        THEN [ok |-> FALSE, self |-> self]
        ELSE [ok |-> TRUE,
              self |-> [self EXCEPT !.x = pkt.vals[1],
                                    !.y = pkt.vals[2],
                                    !.z = pkt.vals[3]]]

HexDigits == <<"0", "1", "2", "3", "4", "5", "6", "7",
               "8", "9", "a", "b", "c", "d", "e", "f">>

\* "{:04x}" of a 16-bit half
Hex4(h) == <<HexDigits[(h \div 4096) + 1], HexDigits[((h \div 256) % 16) + 1],
             HexDigits[((h \div 16) % 16) + 1], HexDigits[(h % 16) + 1]>>

\* "{:08x}" of an unsigned 32-bit value
Format08x(v) == Hex4(v[1]) \o Hex4(v[2])

\* Packet.log: the line it prints, as its three 8-digit fields
log(self) == <<Format08x(self.x), Format08x(self.y), Format08x(self.z)>>

-----------------------------------------------------------------------------
(* The streams the link may deliver *)

\* 0xdeadbeef
MARKER == <<57005, 48879>>

Zero32 == <<0, 0>>
Ones32 == <<65535, 65535>>

\* values of x, y, z on the sender's side
Vals == {Zero32, <<0, 170>>, <<0, 187>>, <<0, 204>>, MARKER, Ones32}

\* payloads of the packets of the general streams
Payloads == {<<<<0, 170>>, <<0, 187>>, <<0, 204>>>>,
             <<MARKER, Zero32, Ones32>>}

\* 4-byte windows that are not the marker: all zero, all ones, the marker
\* most significant byte first, the marker with its last byte off by one
JunkWindows == {<<0, 0, 0, 0>>, <<255, 255, 255, 255>>,
                <<222, 173, 190, 239>>, <<239, 190, 173, 223>>}

\* a stray byte that shifts what follows off the 4-byte grid
JunkBytes == {<<239>>}

Segments ==
    {serialize(MARKER, p[1], p[2], p[3]) : p \in Payloads}
    \cup {<<0, 0, 0, 0>>, <<255, 255, 255, 255>>, <<222, 173, 190, 239>>}
    \cup JunkBytes

BoundedSeq(S, n) == UNION {[1..k -> S] : k \in 0..n}

RECURSIVE Flatten(_)
Flatten(ss) == IF ss = <<>> THEN <<>> ELSE Head(ss) \o Flatten(Tail(ss))

-----------------------------------------------------------------------------
(* main *)

StartOfMain ==
    /\ pos = 0
    /\ packet = PacketInit(MARKER, FormatI)
    /\ raw_bytes_object = <<>>
    /\ pc = "read_marker"
    /\ console = <<>>

Init ==
    /\ stream \in {Flatten(ss) : ss \in BoundedSeq(Segments, MaxSegs)}
    /\ StartOfMain

\* serial_port.read(n) with no timeout: blocks until n bytes have arrived
Available == Len(stream) - pos
Read(n) == SubSeq(stream, pos + 1, pos + n)

\* ReadMarker shifting the window by one byte after a window that did not match
ReadMarkerSliding ==
    /\ pc = "read_marker"
    /\ IF Len(raw_bytes_object) = packet.marker.length
       THEN /\ Available >= 1
            /\ raw_bytes_object' = Tail(raw_bytes_object) \o Read(1)
            /\ pos' = pos + 1
       ELSE /\ Available >= packet.marker.length
            /\ raw_bytes_object' = Read(packet.marker.length)
            /\ pos' = pos + packet.marker.length
    /\ pc' = "sync"
    /\ UNCHANGED <<stream, packet, console>>

\* ReadMarker taking one byte, as the docstring of main describes it
ReadMarkerOneByte ==
    /\ pc = "read_marker"
    /\ Available >= 1
    /\ raw_bytes_object' = Read(1)
    /\ pos' = pos + 1
    /\ pc' = "sync"
    /\ UNCHANGED <<stream, packet, console>>

\* line 130
ReadMarker ==
    /\ pc = "read_marker"
    /\ Available >= packet.marker.length
    /\ raw_bytes_object' = Read(packet.marker.length)
    /\ pos' = pos + packet.marker.length
    /\ pc' = "sync"
    /\ UNCHANGED <<stream, packet, console>>

\* line 131
DoSync ==
    /\ pc = "sync"
    /\ LET r == sync(packet.marker, raw_bytes_object)
       IN  pc' = IF ~r.ok THEN "struct.error"
                 ELSE IF r.ret THEN "read_packet" ELSE "read_marker"
    /\ UNCHANGED <<stream, pos, packet, raw_bytes_object, console>>

\* ReadPacket keeping the marker window as the first bytes of the packet
ReadPacketWithMarker ==
    /\ pc = "read_packet"
    /\ Available >= packet.length - packet.marker.length
    /\ raw_bytes_object' =
          raw_bytes_object \o Read(packet.length - packet.marker.length)
    /\ pos' = pos + packet.length - packet.marker.length
    /\ pc' = "deserialize"
    /\ UNCHANGED <<stream, packet, console>>

\* ReadPacket testing the first payload window against the marker, and
\* taking a match for the start of a new packet
ReadPacketResync ==
    /\ pc = "read_packet"
    /\ Available >= packet.length
    /\ IF sync(packet.marker, Read(packet.marker.length)).ret
       THEN /\ raw_bytes_object' = Read(packet.marker.length)
            /\ pos' = pos + packet.marker.length
            /\ pc' = "read_packet"
       ELSE /\ raw_bytes_object' = Read(packet.length)
            /\ pos' = pos + packet.length
            /\ pc' = "deserialize"
    /\ UNCHANGED <<stream, packet, console>>

\* line 133
ReadPacket ==
    /\ pc = "read_packet"
    /\ Available >= packet.length
    /\ raw_bytes_object' = Read(packet.length)
    /\ pos' = pos + packet.length
    /\ pc' = "deserialize"
    /\ UNCHANGED <<stream, packet, console>>

\* line 134
DoDeserialize ==
    /\ pc = "deserialize"
    /\ LET r == deserialize(packet, raw_bytes_object)
       IN  /\ packet' = r.self
           /\ pc' = IF r.ok THEN "log" ELSE "struct.error"
    /\ UNCHANGED <<stream, pos, raw_bytes_object, console>>

\* DoLog putting the new line ahead of the earlier ones
DoLogPrepend ==
    /\ pc = "log"
    /\ console' = <<log(packet)>> \o console
    /\ pc' = "read_marker"
    /\ UNCHANGED <<stream, pos, packet, raw_bytes_object>>

\* DoLog printing over the previous line
DoLogOverwrite ==
    /\ pc = "log"
    /\ console' = <<log(packet)>>
    /\ pc' = "read_marker"
    /\ UNCHANGED <<stream, pos, packet, raw_bytes_object>>

\* DoLog going on to read another payload without a new sync
DoLogStaysSynced ==
    /\ pc = "log"
    /\ console' = Append(console, log(packet))
    /\ pc' = "read_packet"
    /\ UNCHANGED <<stream, pos, packet, raw_bytes_object>>

\* DoLog leaving the loop after the packet is printed
DoLogReturns ==
    /\ pc = "log"
    /\ console' = Append(console, log(packet))
    /\ pc' = "returned"
    /\ UNCHANGED <<stream, pos, packet, raw_bytes_object>>

\* line 135
DoLog ==
    /\ pc = "log"
    /\ console' = Append(console, log(packet))
    /\ pc' = "read_marker"
    /\ UNCHANGED <<stream, pos, packet, raw_bytes_object>>

\* ReadFail caught inside the loop, which then reads again
ReadFailRetry ==
    /\ pc \in {"read_marker", "read_packet"}
    /\ LET n == IF pc = "read_marker" THEN packet.marker.length
                ELSE packet.length
       IN  \E k \in 0..(n - 1) :
              /\ k <= Available
              /\ pos' = pos + k
    /\ pc' = pc
    /\ UNCHANGED <<stream, packet, raw_bytes_object, console>>

\* serial_port.read raises SerialException (the link closed or failed) after
\* taking k of the n bytes it was asked for; nothing catches it
ReadFail ==
    /\ pc \in {"read_marker", "read_packet"}
    /\ LET n == IF pc = "read_marker" THEN packet.marker.length
                ELSE packet.length
       IN  \E k \in 0..(n - 1) :
              /\ k <= Available
              /\ pos' = pos + k
    /\ pc' = "SerialException"
    /\ UNCHANGED <<stream, packet, raw_bytes_object, console>>

Next ==
    \/ ReadMarker
    \/ DoSync
    \/ ReadPacket
    \/ DoDeserialize
    \/ DoLog
    \/ ReadFail

Spec == Init /\ [][Next]_vars

\* main is one sequential thread: a statement that can run does run. A read
\* is not bound to fail, so ReadFail has no fairness.
SpecLive ==
    /\ Init
    /\ [][Next]_vars
    /\ WF_vars(ReadMarker)
    /\ WF_vars(DoSync)
    /\ WF_vars(ReadPacket)
    /\ WF_vars(DoDeserialize)
    /\ WF_vars(DoLog)

-----------------------------------------------------------------------------
(* Streams of one packet behind non-matching windows *)

InitFramed ==
    /\ stream \in {Flatten(js) \o serialize(MARKER, x, y, z) :
                      js \in BoundedSeq(JunkWindows, MaxJunk),
                      x \in Vals, y \in Vals, z \in Vals}
    /\ StartOfMain

SpecFramed == InitFramed /\ [][Next]_vars

-----------------------------------------------------------------------------
(* Streams of one packet whose payload the link corrupted in one bit *)

RECURSIVE Pow2(_)
Pow2(k) == IF k = 0 THEN 1 ELSE 2 * Pow2(k - 1)

\* byte with bit k inverted
FlipByte(byte, k) ==
    IF (byte \div Pow2(k)) % 2 = 1 THEN byte - Pow2(k) ELSE byte + Pow2(k)

\* bytes with bit b inverted, bit 0 the least significant bit of the first byte
FlipBit(bytes, b) ==
    [i \in 1..Len(bytes) |->
        IF i = (b \div 8) + 1 THEN FlipByte(bytes[i], b % 8) ELSE bytes[i]]

PayloadBytes(p) == PackI(p[1]) \o PackI(p[2]) \o PackI(p[3])

InitFlip ==
    /\ stream \in {Flatten(js) \o PackI(MARKER) \o FlipBit(PayloadBytes(p), b) :
                      js \in BoundedSeq(JunkWindows, MaxFlipJunk),
                      p \in Payloads, b \in 0..95}
    /\ StartOfMain

SpecFlip == InitFlip /\ [][Next]_vars

-----------------------------------------------------------------------------
(* The methods of one Packet object called directly, with windows of any    *)
(* length cut from a buffer; pc holds the method last called and how it     *)
(* ended, raw_bytes_object the window it was given.                         *)

InitCalls ==
    /\ stream \in {serialize(MARKER, p[1], p[2], p[3]) : p \in Payloads}
                   \cup {Flatten(<<w, w, w, w>>) : w \in JunkWindows}
    /\ pos = 0
    /\ packet = PacketInit(MARKER, FormatI)
    /\ raw_bytes_object = <<>>
    /\ pc = "call"
    /\ console = <<>>

\* the windows a caller may hand over: they start at the marker or at the
\* payload of the buffer
Windows ==
    {SubSeq(stream, c[1] + 1, c[1] + c[2]) :
        c \in {d \in {0, Len(PackI(MARKER))} \X (0..MaxWindow) :
                 d[1] + d[2] <= Len(stream)}}

CallSync ==
    /\ \E w \in Windows :
          /\ raw_bytes_object' = w
          /\ LET r == sync(packet.marker, w)
             IN  pc' = IF ~r.ok THEN "sync:struct.error"
                       ELSE IF r.ret THEN "sync:True" ELSE "sync:False"
    /\ UNCHANGED <<stream, pos, packet, console>>

CallDeserialize ==
    /\ \E w \in Windows :
          /\ raw_bytes_object' = w
          /\ LET r == deserialize(packet, w)
             IN  /\ packet' = r.self
                 /\ pc' = IF r.ok THEN "deserialize:None"
                           ELSE "deserialize:struct.error"
    /\ UNCHANGED <<stream, pos, console>>

CallLog ==
    /\ Len(console) < MaxLogs
    /\ console' = Append(console, log(packet))
    /\ pc' = "log:None"
    /\ UNCHANGED <<stream, pos, packet, raw_bytes_object>>

NextCalls ==
    \/ CallSync
    \/ CallDeserialize
    \/ CallLog

SpecCalls == InitCalls /\ [][NextCalls]_vars

-----------------------------------------------------------------------------
(* Properties *)

\* the marker on the wire: EF BE AD DE
MarkerBytes == <<239, 190, 173, 222>>

Fields(p) == <<p.x, p.y, p.z>>

\* the i-th 4-byte field after the marker of the packet that starts at offset at
FieldAt(at, i) == SubSeq(stream, at + 4 * i + 1, at + 4 * i + 4)

\* main is between iterations with the whole stream taken
Drained == pc = "read_marker" /\ pos = Len(stream)

ExampleStream == <<239, 190, 173, 222, 170, 0, 0, 0, 187, 0, 0, 0, 204, 0, 0, 0>>

ExampleLine == <<<<"0", "0", "0", "0", "0", "0", "a", "a">>,
                 <<"0", "0", "0", "0", "0", "0", "b", "b">>,
                 <<"0", "0", "0", "0", "0", "0", "c", "c">>>>

(* C1: a stream that is exactly the marker followed by x, y, z, each packed  *)
(* as 4 little-endian bytes, makes main print exactly one line, and that     *)
(* line (and the packet it is printed from) carries x, y, z; the example     *)
(* stream EF BE AD DE AA.. BB.. CC.. prints 000000aa, 000000bb, 000000cc.    *)
RoundTrip ==
    (Len(stream) = 16 /\ SubSeq(stream, 1, 4) = MarkerBytes) =>
        /\ Len(console) <= 1
        /\ (Drained => Len(console) = 1)
        /\ \A i \in 1..3 : \A v \in Vals :
              FieldAt(0, i) = PackI(v) =>
                /\ (pc = "log" => Fields(packet)[i] = v)
                /\ (console # <<>> => console[1][i] = Format08x(v))
        /\ (stream = ExampleStream /\ console # <<>> => console[1] = ExampleLine)

RoundTripWitness ==
    /\ Drained
    /\ stream = serialize(MARKER, MARKER, <<0, 170>>, Ones32)
    /\ Len(console) = 1

(* C2: Marker.sync answers true exactly for the window EF BE AD DE, the      *)
(* little-endian bytes of the marker value, and false for every other 4-byte *)
(* window, the all-zero and all-ones windows included; it changes no state.  *)
SyncSelective ==
    [][pc = "sync" =>
        /\ (pc' = "read_packet") = (raw_bytes_object = MarkerBytes)
        /\ (pc' = "read_marker") = (raw_bytes_object # MarkerBytes)
        /\ (raw_bytes_object \in {<<0, 0, 0, 0>>, <<255, 255, 255, 255>>}
              => pc' = "read_marker")
        /\ UNCHANGED <<stream, pos, packet, raw_bytes_object, console>>]_vars

SyncSelectiveWitness ==
    /\ pc = "read_packet"
    /\ raw_bytes_object = MarkerBytes
    /\ pos >= 12
    /\ SubSeq(stream, 1, 8) = <<0, 0, 0, 0, 255, 255, 255, 255>>

(* C3: a stream of N non-matching 4-byte windows followed by one valid       *)
(* 16-byte packet makes main print exactly one line; the payload it decodes  *)
(* is the last 12 bytes of the stream, and the line carries the x, y, z of   *)
(* that packet whatever the discarded windows held.                          *)
ResyncDiscards ==
    LET n == Len(stream)
        base == n - 16
    IN  (/\ n >= 16
         /\ n % 4 = 0
         /\ SubSeq(stream, base + 1, base + 4) = MarkerBytes
         /\ \A j \in 0..((base \div 4) - 1) :
               SubSeq(stream, 4 * j + 1, 4 * j + 4) # MarkerBytes) =>
            /\ Len(console) <= 1
            /\ (Drained => Len(console) = 1)
            /\ (pc \in {"deserialize", "log"} =>
                  pos = n /\ raw_bytes_object = SubSeq(stream, base + 5, n))
            /\ (console # <<>> => pos = n)
            /\ \A i \in 1..3 : \A v \in Vals :
                  FieldAt(base, i) = PackI(v) =>
                    /\ (pc = "log" => Fields(packet)[i] = v)
                    /\ (console # <<>> => console[1][i] = Format08x(v))

ResyncDiscardsWitness ==
    /\ Drained
    /\ Len(stream) = 24
    /\ SubSeq(stream, 1, 8) = <<222, 173, 190, 239, 255, 255, 255, 255>>
    /\ Len(console) = 1

\* a marker lies at offset p of the stream, off the 4-byte grid
MisalignedMarkerAt(p) ==
    /\ p % 4 # 0
    /\ SubSeq(stream, p + 1, p + 4) = MarkerBytes

\* no window of the 4-byte grid is the marker
NoAlignedMarker ==
    \A j \in 0..((Len(stream) \div 4) - 1) :
        SubSeq(stream, 4 * j + 1, 4 * j + 4) # MarkerBytes

(* C4: a marker that begins at an offset that is not a multiple of 4 from    *)
(* the first read is never the window main tests, main never reads or        *)
(* prints the payload behind it, and when no window of the 4-byte grid is    *)
(* the marker nothing is printed at all.                                     *)
MisalignedUndetected ==
    /\ \A p \in 0..(Len(stream) - 4) :
          MisalignedMarkerAt(p) =>
            /\ (pc \in {"sync", "read_packet"} => pos - 4 # p)
            /\ (pc \in {"deserialize", "log"} => pos - 16 # p)
    /\ ((\E p \in 0..(Len(stream) - 4) : MisalignedMarkerAt(p))
          /\ NoAlignedMarker
          => console = <<>> /\ pc \notin {"read_packet", "deserialize", "log"})

MisalignedUndetectedWitness ==
    /\ pc = "read_marker"
    /\ console = <<>>
    /\ \E p \in 0..(Len(stream) - 16) :
          /\ MisalignedMarkerAt(p)
          /\ pos >= p + 16

(* C5: each sync attempt of main takes a single byte from the serial port    *)
(* (the docstring of main).                                                  *)
SyncReadsOneByte ==
    [][pc = "read_marker" /\ pc' = "sync" =>
        pos' = pos + 1 /\ Len(raw_bytes_object') = 1]_vars

\* value n with bit k inverted
FlipIntBit(n, k) ==
    IF (n \div Pow2(k)) % 2 = 1 THEN n - Pow2(k) ELSE n + Pow2(k)

\* the unsigned 32-bit value v with bit k inverted
FlipU32(v, k) ==
    IF k < 16 THEN <<v[1], FlipIntBit(v[2], k)>>
    ELSE <<FlipIntBit(v[1], k - 16), v[2]>>

\* payload p with bit b of its 96 bits inverted: 32 bits a field, x first
Corrupted(p, b) ==
    [i \in 1..3 |-> IF i = (b \div 32) + 1 THEN FlipU32(p[i], b % 32) ELSE p[i]]

(* C6: a valid aligned packet with any single bit of its 12 payload bytes    *)
(* inverted is still decoded and printed, exactly once, with the corrupted   *)
(* values; main never rejects it.                                            *)
NoChecksum ==
    LET n == Len(stream)
    IN  (pc \in {"log", "struct.error"} \/ console # <<>> \/ Drained) =>
        \A p \in Payloads : \A b \in 0..95 :
          (/\ n >= 16
           /\ SubSeq(stream, n - 15, n - 12) = MarkerBytes
           /\ SubSeq(stream, n - 11, n) = FlipBit(PayloadBytes(p), b)) =>
              /\ Len(console) <= 1
              /\ (Drained => Len(console) = 1)
              /\ pc # "struct.error"
              /\ (pc = "log" => Fields(packet) = Corrupted(p, b))
              /\ (console # <<>> =>
                    console[1] = [i \in 1..3 |-> Format08x(Corrupted(p, b)[i])])

NoChecksumWitness ==
    /\ Drained
    /\ Len(console) = 1
    /\ stream = MarkerBytes
                \o FlipBit(PayloadBytes(<<MARKER, Zero32, Ones32>>), 95)

(* C7: a stream of k back-to-back valid 16-byte packets makes main print     *)
(* exactly k lines, the i-th line carrying the x, y, z of the i-th packet.   *)
Ordering ==
    LET k == Len(stream) \div 16
    IN  (/\ Len(stream) % 16 = 0
         /\ \A j \in 0..(k - 1) :
               SubSeq(stream, 16 * j + 1, 16 * j + 4) = MarkerBytes) =>
            /\ Len(console) <= pos \div 16
            /\ (Drained => Len(console) = k)
            /\ \A j \in 1..Len(console) : \A i \in 1..3 : \A v \in Vals :
                  FieldAt(16 * (j - 1), i) = PackI(v) =>
                    console[j][i] = Format08x(v)

OrderingWitness ==
    /\ Drained
    /\ Len(stream) = 48
    /\ Len(console) = 3
    /\ console[1] # console[2]
    /\ console[2] = console[3]

(* C8: a read that fails ends main with that failure: a read either delivers *)
(* the bytes asked for or ends in SerialException, the failing step prints   *)
(* nothing and leaves the packet as it was, and no step is taken after it.   *)
IOFailureFatal ==
    [][/\ pc # "SerialException"
       /\ (pc = "read_marker" =>
             \/ pc' = "sync" /\ pos' = pos + 4
             \/ pc' = "SerialException")
       /\ (pc = "read_packet" =>
             \/ pc' = "deserialize" /\ pos' = pos + 12
             \/ pc' = "SerialException")
       /\ (pc' = "SerialException" =>
             /\ pc \in {"read_marker", "read_packet"}
             /\ UNCHANGED <<console, packet, raw_bytes_object>>)]_vars

IOFailureFatalWitness ==
    /\ pc = "SerialException"
    /\ raw_bytes_object = MarkerBytes
    /\ Len(console) = 1
    /\ pos = 27

Transitions ==
    /\ (pc = "read_marker" /\ pos = 0 /\ console = <<>>)
    /\ [][/\ (pc' = "read_packet" =>
                 pc = "sync" /\ raw_bytes_object = MarkerBytes)
           /\ (pc' = "deserialize" =>
                 pc = "read_packet" /\ raw_bytes_object = MarkerBytes)
           /\ (pc' = "log" => pc = "deserialize")
           /\ (console' # console =>
                 /\ pc = "log"
                 /\ raw_bytes_object = SubSeq(stream, pos - 11, pos)
                 /\ SubSeq(stream, pos - 15, pos - 12) = MarkerBytes)
           /\ (pc = "log" => pc' = "read_marker")
           /\ (pc = "sync" /\ raw_bytes_object # MarkerBytes =>
                 pc' = "read_marker")
           /\ (pc = "read_marker" =>
                 \/ /\ pc' = "sync"
                    /\ raw_bytes_object' = SubSeq(stream, pos + 1, pos + 4)
                    /\ pos' = pos + 4
                 \/ pc' = "SerialException")]_vars

TransitionsWitness ==
    /\ pc = "sync"
    /\ Len(console) = 1
    /\ pos = 24
    /\ SubSeq(stream, 1, 4) # MarkerBytes

(* C11: every SEEKING attempt tests a window read afresh from where the last *)
(* read ended, and so does every payload read; the stream position never     *)
(* goes back, so no byte is the input of two match attempts or of a match    *)
(* attempt and a decode, and the bytes of a rejected window are gone.        *)
NoLookahead ==
    [][/\ pos' >= pos
       /\ stream' = stream
       /\ (pc' = "sync" =>
             /\ raw_bytes_object' = SubSeq(stream, pos + 1, pos + 4)
             /\ pos' = pos + 4)
       /\ (pc' = "deserialize" =>
             /\ raw_bytes_object' = SubSeq(stream, pos + 1, pos + 12)
             /\ pos' = pos + 12)
       /\ (raw_bytes_object' # raw_bytes_object =>
             pc \in {"read_marker", "read_packet"})]_vars

NoLookaheadWitness ==
    /\ pc = "deserialize"
    /\ pos = 24
    /\ SubSeq(stream, 1, 8) = <<222, 173, 190, 239>> \o <<0, 0, 0, 0>>
    /\ raw_bytes_object = SubSeq(stream, 13, 24)

(* C12: the window given to Marker.sync always has the 4 bytes of the marker *)
(* width and the window given to Packet.deserialize the 12 bytes of the      *)
(* payload width (three fields of 4), both widths stay what the constructors *)
(* computed, and main never ends in struct.error.                            *)
LayoutErrorUnreachable ==
    /\ packet.marker.length = 4
    /\ packet.length = 12
    /\ packet.length = 3 * packet.marker.length
    /\ (pc = "sync" => Len(raw_bytes_object) = packet.marker.length)
    /\ (pc = "deserialize" => Len(raw_bytes_object) = packet.length)
    /\ pc # "struct.error"

LayoutErrorUnreachableWitness ==
    /\ pc = "deserialize"
    /\ Len(raw_bytes_object) = 12
    /\ Len(console) = 1
    /\ pos = 36

(* C13: Packet.deserialize given a window that is not 12 bytes long ends in  *)
(* an error; it decodes nothing, prints nothing and leaves x, y, z (and the  *)
(* rest of the packet) as they were. A 12-byte window is decoded.            *)
DeserializeRejectsWrongLength ==
    [][pc' \in {"deserialize:None", "deserialize:struct.error"} =>
        /\ (Len(raw_bytes_object') # 12 =>
              /\ pc' = "deserialize:struct.error"
              /\ packet' = packet
              /\ console' = console)
        /\ (Len(raw_bytes_object') = 12 => pc' = "deserialize:None")]_vars

DeserializeRejectsWrongLengthWitness ==
    /\ pc = "deserialize:struct.error"
    /\ Len(raw_bytes_object) = 13
    /\ Fields(packet) = <<MARKER, Zero32, Ones32>>

(* C14: Marker.sync given a window that is not 4 bytes long ends in an       *)
(* error, never in the answer false (or true); a 4-byte window is answered   *)
(* true or false. Either way nothing is changed.                             *)
SyncRejectsWrongLength ==
    [][pc' \in {"sync:True", "sync:False", "sync:struct.error"} =>
        /\ (Len(raw_bytes_object') # 4 => pc' = "sync:struct.error")
        /\ (Len(raw_bytes_object') = 4 => pc' # "sync:struct.error")
        /\ UNCHANGED <<packet, console>>]_vars

SyncRejectsWrongLengthWitness ==
    /\ pc = "sync:struct.error"
    /\ Len(raw_bytes_object) = 5
    /\ SubSeq(raw_bytes_object, 1, 4) = MarkerBytes

\* main waits in a payload read for bytes the link has not delivered
WaitingForPayload == pc = "read_packet" /\ Available < packet.length

(* C15: main has no terminal state: it can take no further step only after  *)
(* a read failed with SerialException, and as long as no read fails and the  *)
(* payload bytes asked for arrive, it is again and again at a SEEKING read.  *)
LoopNeverHalts ==
    /\ [](~(ENABLED Next) => pc = "SerialException")
    /\ []<>(pc = "read_marker" \/ pc = "SerialException" \/ WaitingForPayload)

LoopNeverHaltsWitness ==
    /\ pc = "read_marker"
    /\ Len(console) = 2
    /\ pos = 40

(* C16: the marker value, the marker format and width and the payload format *)
(* and width are what the constructors set and no step of main changes them; *)
(* deserialize changes x, y, z only, and no other step changes the packet.   *)
ConfigurationImmutable ==
    /\ packet.marker = [marker |-> MARKER, format |-> FormatI, length |-> 4]
    /\ packet.format = FormatIII
    /\ packet.length = 12
    /\ [][/\ packet'.marker = packet.marker
           /\ packet'.format = packet.format
           /\ packet'.length = packet.length
           /\ (pc # "deserialize" => packet' = packet)]_vars

ConfigurationImmutableWitness ==
    /\ pc = "read_marker"
    /\ Len(console) = 2
    /\ Fields(packet) = <<MARKER, Zero32, Ones32>>
    /\ packet.marker.marker = MARKER

(* C17: after a marker match the next 12 bytes are decoded as x, y, z        *)
(* whatever they hold: no window of the payload is tested against the        *)
(* marker, x = 0xdeadbeef is printed as deadbeef, and the next sync test is  *)
(* on the 4 bytes behind the payload.                                        *)
PayloadNeverTested ==
    (Len(stream) >= 16 /\ SubSeq(stream, 1, 4) = MarkerBytes) =>
        /\ (pc \in {"sync", "read_packet"} => pos = 4 \/ pos >= 20)
        /\ (pc \in {"deserialize", "log"} /\ console = <<>> =>
              pos = 16 /\ raw_bytes_object = SubSeq(stream, 5, 16))
        /\ (console # <<>> =>
              /\ \A i \in 1..3 : \A v \in Vals :
                    FieldAt(0, i) = PackI(v) => console[1][i] = Format08x(v)
              /\ (FieldAt(0, 1) = MarkerBytes =>
                    console[1][1] = <<"d", "e", "a", "d", "b", "e", "e", "f">>))

PayloadNeverTestedWitness ==
    /\ pc = "sync"
    /\ pos = 20
    /\ FieldAt(0, 1) = MarkerBytes
    /\ Len(console) = 1

\* the windows rejected in the first upto bytes of the stream, counted on the
\* bytes: a window that is the marker takes 16 bytes, any other window 4
RECURSIVE Rejected(_, _)
Rejected(at, upto) ==
    IF at >= upto THEN 0
    ELSE IF SubSeq(stream, at + 1, at + 4) = MarkerBytes
         THEN Rejected(at + 16, upto)
         ELSE 1 + Rejected(at + 4, upto)

(* C18: between iterations the bytes taken from the stream are 4 for every   *)
(* window rejected plus 16 for every line printed, so every SEEKING read     *)
(* starts at a multiple of 4; what a read returns is the stretch of the      *)
(* stream that ends at the position, no byte skipped.                        *)
ConsumptionAccounting ==
    /\ (pc = "read_marker" =>
          /\ pos % 4 = 0
          /\ pos = 4 * Rejected(0, pos) + 16 * Len(console))
    /\ (pc = "sync" =>
          pos % 4 = 0 /\ raw_bytes_object = SubSeq(stream, pos - 3, pos))
    /\ (pc = "deserialize" =>
          pos % 4 = 0 /\ raw_bytes_object = SubSeq(stream, pos - 11, pos))

ConsumptionAccountingWitness ==
    /\ pc = "read_marker"
    /\ Len(console) = 1
    /\ Rejected(0, pos) = 2
    /\ pos = 24

====
